---- MODULE Spec2Model ----
(***************************************************************************)
(* A model of the ingestion pipeline of AiNoteApp.                         *)
(*                                                                         *)
(*   Spec        the background-task orchestrator of src/App.tsx:          *)
(*               handleProcessAudio, handleProcessPdf, handleProcessImage, *)
(*               the note store and the single bgTask slot                 *)
(*   SpecSplit   splitPdf of src/services/geminiService.ts                 *)
(*   SpecDecode  safeParseJSON of src/services/geminiService.ts            *)
(*   SpecRec     the speech-recognition handlers of the AudioRecorder      *)
(*               component (src/unnamed/part_000)                          *)
(*   SpecExtract extractTextFromPdfBlob of src/services/pdfService.ts      *)
(*   SpecSvc     the model-backed calls of src/services/geminiService.ts   *)
(*                                                                         *)
(* Strings of the program are sequences of one-character strings, so that  *)
(* concatenation, trimming and the regular expressions are computed.       *)
(***************************************************************************)
EXTENDS Integers, Sequences, FiniteSets, TLC

VARIABLES
    \* ---- orchestrator (src/App.tsx) ----
    bgTask,      \* useState<BackgroundTask | null>: the job slot
    notes,       \* useState<Note[]>: the note store
    jobs,        \* one record per invocation of a handleProcess* handler
    \* ---- splitPdf ----
    sp,
    \* ---- safeParseJSON ----
    dec,
    \* ---- AudioRecorder ----
    rec,
    \* ---- extractTextFromPdfBlob (src/services/pdfService.ts) ----
    ex,
    \* ---- the model-backed services of geminiService.ts ----
    svc

vars == <<bgTask, notes, jobs, sp, dec, rec, ex, svc>>

(***************************************************************************)
(* Bounds of the model.                                                    *)
(***************************************************************************)
MaxJobs == 2
MaxDocPages == 11
MaxSplitPages == 7
MaxSplitK == 3
MaxTextLen == 3
MaxEventLen == 2
MaxBufferLen == 3
MaxExtractPages == 21

(***************************************************************************)
(* Program constants.                                                      *)
(***************************************************************************)
PagesPerChunk == 5

\* ---------------------------------------------------------------- helpers

RECURSIVE Reverse(_)
Reverse(s) == IF s = <<>> THEN <<>> ELSE Append(Reverse(Tail(s)), Head(s))

\* ceil(n / k) for k > 0
Ceil(n, k) == (n + k - 1) \div k

\* ================================================================ splitPdf

\* A Blob holding a PDF: src tells the input document from a document
\* assembled by splitPdf, pages lists the source page indices it holds.
InputBlob(n) == [src |-> "input", pages |-> [p \in 1..n |-> p - 1]]

\* a mutant of PageIndices: the bound on the page index is off by one
RECURSIVE PageIndicesInclusive(_, _, _, _)
PageIndicesInclusive(i, j, pagesPerChunk, totalPages) ==
    IF j < pagesPerChunk /\ (i + j) <= totalPages
    THEN <<i + j>> \o PageIndicesInclusive(i, j + 1, pagesPerChunk, totalPages)
    ELSE <<>>

\* lines 102-105: the inner loop filling pageIndices for the chunk at i
RECURSIVE PageIndices(_, _, _, _)
PageIndices(i, j, pagesPerChunk, totalPages) ==
    IF j < pagesPerChunk /\ (i + j) < totalPages
    THEN <<i + j>> \o PageIndices(i, j + 1, pagesPerChunk, totalPages)
    ELSE <<>>

\* lines 101-109: one chunk, a new document holding copies of the pages
NewChunk(i, pagesPerChunk, totalPages) ==
    [src |-> "copy", pages |-> PageIndices(i, 0, pagesPerChunk, totalPages)]

\* lines 100-111: the outer loop.  fault counts down the chunks that are
\* still built before create/copyPages/save throws (-1: nothing throws).
\* The result is the thrown flag and the chunks array at that point.
RECURSIVE SplitLoop(_, _, _, _, _)
SplitLoop(i, pagesPerChunk, totalPages, chunks, fault) ==
    IF ~(i < totalPages) THEN [thrown |-> FALSE, chunks |-> chunks]
    ELSE IF fault = 0 THEN [thrown |-> TRUE, chunks |-> chunks]
    ELSE SplitLoop(i + pagesPerChunk, pagesPerChunk, totalPages,
                   Append(chunks, NewChunk(i, pagesPerChunk, totalPages)),
                   IF fault > 0 THEN fault - 1 ELSE fault)

\* a mutant of SplitCatch: the chunks built so far are returned
SplitCatchPartial(pdfBlob, chunks) == chunks

\* lines 112-115: the catch block
SplitCatch(pdfBlob, chunks) == <<pdfBlob>>

\* a mutant of SplitWhole: the single chunk is a copy of the document
SplitWholeCopy(pdfBlob) == <<[src |-> "copy", pages |-> pdfBlob.pages]>>

\* lines 96-98: the early return for a document that fits one chunk
SplitWhole(pdfBlob) == <<pdfBlob>>

\* whether the run reaches the catch block (lines 112-115)
SplitThrows(pdfBlob, pagesPerChunk, fault) ==
    \/ fault = 1
    \/ /\ fault >= 2
       /\ Len(pdfBlob.pages) > pagesPerChunk
       /\ SplitLoop(0, pagesPerChunk, Len(pdfBlob.pages), <<>>, fault - 2).thrown

\* lines 89-116.  fault = 0: nothing throws; 1: arrayBuffer()/load() throws;
\* f >= 2: building chunk number f-1 throws.
splitPdf(pdfBlob, pagesPerChunk, fault) ==
    IF fault = 1 THEN SplitCatch(pdfBlob, <<>>)
    ELSE LET totalPages == Len(pdfBlob.pages) IN
         IF totalPages <= pagesPerChunk THEN SplitWhole(pdfBlob)
         ELSE LET r == SplitLoop(0, pagesPerChunk, totalPages, <<>>,
                                 IF fault = 0 THEN -1 ELSE fault - 2)
              IN  IF r.thrown THEN SplitCatch(pdfBlob, r.chunks) ELSE r.chunks

\* ============================================================ safeParseJSON

\* Characters are one-character strings; a program string is a sequence of
\* them.
Q == "\""
BSL == "\\"
NL == "\n"
TAB == "\t"
CR == "\r"
FF == "\f"
\* the backtick character (the lexer of TLA+ does not take it in a string)
BT == "<BT>"

StartsWith(s, p) == Len(s) >= Len(p) /\ SubSeq(s, 1, Len(p)) = p
EndsWith(s, p) == Len(s) >= Len(p) /\ SubSeq(s, Len(s) - Len(p) + 1, Len(s)) = p
Drop(s, n) == SubSeq(s, n + 1, Len(s))
DropLast(s, n) == SubSeq(s, 1, Len(s) - n)

\* ---- String.prototype.trim (line 17)
IsTrimWs(c) == c \in {" ", TAB, NL, CR, FF}

RECURSIVE TrimStart(_)
TrimStart(s) == IF s # <<>> /\ IsTrimWs(Head(s)) THEN TrimStart(Tail(s)) ELSE s

RECURSIVE TrimEnd(_)
TrimEnd(s) == IF s # <<>> /\ IsTrimWs(s[Len(s)]) THEN TrimEnd(DropLast(s, 1)) ELSE s

Trim(s) == TrimEnd(TrimStart(s))

\* ---- the code fence (lines 18-20)
Fence == <<BT, BT, BT>>

\* .replace(/^BT BT BT(?:json)?\n?/, '')
StripFenceOpen(s) ==
    IF ~StartsWith(s, Fence) THEN s
    ELSE LET a == Drop(s, 3)
             b == IF StartsWith(a, <<"j", "s", "o", "n">>) THEN Drop(a, 4) ELSE a
         IN  IF StartsWith(b, <<NL>>) THEN Drop(b, 1) ELSE b

\* .replace(/\n?BT BT BT$/, '')
StripFenceClose(s) ==
    IF EndsWith(s, <<NL>> \o Fence) THEN DropLast(s, 4)
    ELSE IF EndsWith(s, Fence) THEN DropLast(s, 3)
    ELSE s

StripFence(cleaned) ==
    IF StartsWith(cleaned, Fence) THEN StripFenceClose(StripFenceOpen(cleaned))
    ELSE cleaned

\* ---- control characters (lines 22-27): /[\x00-\x1F\x7F]/g
IsControl(ch) == ch \in {NL, CR, TAB, FF}

ReplaceControl(ch) ==
    IF ch = NL THEN <<BSL, "n">>
    ELSE IF ch = CR THEN <<BSL, "r">>
    ELSE IF ch = TAB THEN <<BSL, "t">>
    ELSE <<>>

RECURSIVE EscapeControls(_)
EscapeControls(s) ==
    IF s = <<>> THEN <<>>
    ELSE (IF IsControl(Head(s)) THEN ReplaceControl(Head(s)) ELSE <<Head(s)>>)
         \o EscapeControls(Tail(s))

\* lines 17-27: the text handed to the first JSON.parse
Cleaned(text) == EscapeControls(StripFence(Trim(text)))

\* ---- JSON.parse
\* A parsed value is <<tag, payload>>: <<"str", characters>>, <<"num",
\* characters>>, <<"lit", name>>, <<"arr", values>>, <<"obj", members>> with
\* members a sequence of <<key characters, value>> in insertion order.
\* Fractions, exponents and \u escapes use characters no input here holds
\* and are not parsed.
EmptyObject == <<"obj", <<>>>>

ParseFail == [ok |-> FALSE, v |-> <<>>, i |-> 0]
ParseOk(v, i) == [ok |-> TRUE, v |-> v, i |-> i]

IsJsonWs(c) == c \in {" ", TAB, NL, CR}

RECURSIVE SkipWs(_, _)
SkipWs(s, i) == IF i <= Len(s) /\ IsJsonWs(s[i]) THEN SkipWs(s, i + 1) ELSE i

Digits == {"0", "1", "2", "3", "4", "5", "6", "7", "8", "9"}

EscapeMap ==
    [c \in {Q, BSL, "/", "b", "f", "n", "r", "t"} |->
        IF c = "n" THEN NL ELSE IF c = "r" THEN CR ELSE IF c = "t" THEN TAB
        ELSE IF c = "f" THEN FF ELSE IF c = "b" THEN "<BS>" ELSE c]

\* the characters of a string, from the one after the opening quote
RECURSIVE ParseString(_, _, _)
ParseString(s, i, acc) ==
    IF i > Len(s) THEN ParseFail
    ELSE IF s[i] = Q THEN ParseOk(<<"str", acc>>, i + 1)
    ELSE IF s[i] = BSL THEN
        IF i + 1 <= Len(s) /\ s[i + 1] \in DOMAIN EscapeMap
        THEN ParseString(s, i + 2, Append(acc, EscapeMap[s[i + 1]]))
        ELSE ParseFail
    ELSE IF IsControl(s[i]) THEN ParseFail
    ELSE ParseString(s, i + 1, Append(acc, s[i]))

RECURSIVE ParseDigits(_, _)
ParseDigits(s, i) == IF i <= Len(s) /\ s[i] \in Digits THEN ParseDigits(s, i + 1) ELSE i

\* -?(0|[1-9][0-9]*)
ParseNumber(s, i) ==
    LET d == IF s[i] = "-" THEN i + 1 ELSE i IN
    IF d > Len(s) \/ s[d] \notin Digits THEN ParseFail
    ELSE LET e == IF s[d] = "0" THEN d + 1 ELSE ParseDigits(s, d)
         IN  ParseOk(<<"num", SubSeq(s, i, e - 1)>>, e)

ParseLiteral(s, i) ==
    IF StartsWith(Drop(s, i - 1), <<"t", "r", "u", "e">>) THEN ParseOk(<<"lit", "true">>, i + 4)
    ELSE IF StartsWith(Drop(s, i - 1), <<"f", "a", "l", "s", "e">>) THEN ParseOk(<<"lit", "false">>, i + 5)
    ELSE IF StartsWith(Drop(s, i - 1), <<"n", "u", "l", "l">>) THEN ParseOk(<<"lit", "null">>, i + 4)
    ELSE ParseFail

\* obj[key] = value: a key already there keeps its place
PutMember(members, key, value) ==
    IF \E m \in 1..Len(members) : members[m][1] = key
    THEN [m \in 1..Len(members) |->
            IF members[m][1] = key THEN <<key, value>> ELSE members[m]]
    ELSE Append(members, <<key, value>>)

RECURSIVE ParseValue(_, _)
RECURSIVE ParseElements(_, _, _)
RECURSIVE ParseMembers(_, _, _)

ParseValue(s, i0) ==
    LET i == SkipWs(s, i0) IN
    IF i > Len(s) THEN ParseFail
    ELSE IF s[i] = Q THEN ParseString(s, i + 1, <<>>)
    ELSE IF s[i] = "[" THEN
        LET k == SkipWs(s, i + 1) IN
        IF k <= Len(s) /\ s[k] = "]" THEN ParseOk(<<"arr", <<>>>>, k + 1)
        ELSE ParseElements(s, i + 1, <<>>)
    ELSE IF s[i] = "{" THEN
        LET k == SkipWs(s, i + 1) IN
        IF k <= Len(s) /\ s[k] = "}" THEN ParseOk(EmptyObject, k + 1)
        ELSE ParseMembers(s, i + 1, <<>>)
    ELSE IF s[i] \in Digits \cup {"-"} THEN ParseNumber(s, i)
    ELSE ParseLiteral(s, i)

\* the elements of an array from position i: a value, then "," or "]"
ParseElements(s, i, acc) ==
    LET r == ParseValue(s, i) IN
    IF ~r.ok THEN ParseFail
    ELSE LET k == SkipWs(s, r.i) IN
         IF k > Len(s) THEN ParseFail
         ELSE IF s[k] = "," THEN ParseElements(s, k + 1, Append(acc, r.v))
         ELSE IF s[k] = "]" THEN ParseOk(<<"arr", Append(acc, r.v)>>, k + 1)
         ELSE ParseFail

\* the members of an object from position i: a string, ":", a value, then
\* "," or "}"
ParseMembers(s, i, acc) ==
    LET k0 == SkipWs(s, i) IN
    IF k0 > Len(s) \/ s[k0] # Q THEN ParseFail
    ELSE LET key == ParseString(s, k0 + 1, <<>>) IN
         IF ~key.ok THEN ParseFail
         ELSE LET k1 == SkipWs(s, key.i) IN
              IF k1 > Len(s) \/ s[k1] # ":" THEN ParseFail
              ELSE LET r == ParseValue(s, k1 + 1) IN
                   IF ~r.ok THEN ParseFail
                   ELSE LET k2 == SkipWs(s, r.i) IN
                        IF k2 > Len(s) THEN ParseFail
                        ELSE IF s[k2] = ","
                        THEN ParseMembers(s, k2 + 1, PutMember(acc, key.v[2], r.v))
                        ELSE IF s[k2] = "}"
                        THEN ParseOk(<<"obj", PutMember(acc, key.v[2], r.v)>>, k2 + 1)
                        ELSE ParseFail

\* JSON.parse(s): ok is FALSE where JSON.parse throws a SyntaxError
JSONparse(s) ==
    LET r == ParseValue(s, 1) IN
    IF r.ok /\ SkipWs(s, r.i) = Len(s) + 1
    THEN [ok |-> TRUE, v |-> r.v]
    ELSE [ok |-> FALSE, v |-> <<>>]

\* ---- the repair (lines 33-44)

\* (repaired.match(/(?<!\\)"/g) || []).length
QuoteCount(s) ==
    Cardinality({i \in 1..Len(s) : s[i] = Q /\ (i = 1 \/ s[i - 1] # BSL)})

CountOf(s, chars) == Cardinality({i \in 1..Len(s) : s[i] \in chars})

\* String.prototype.lastIndexOf, 0-based, -1 when absent
LastIndexOf(s, ch) ==
    LET at == {i \in 1..Len(s) : s[i] = ch} IN
    IF at = {} THEN -1 ELSE (CHOOSE i \in at : \A k \in at : k <= i) - 1

\* lines 40-44: the loop appending the closers
RECURSIVE CloseOpen(_, _)
CloseOpen(repaired, n) ==
    IF n <= 0 THEN repaired
    ELSE LET lastOpen == IF LastIndexOf(repaired, "[") > LastIndexOf(repaired, "{")
                         THEN "]" ELSE "}"
         IN  CloseOpen(Append(repaired, lastOpen), n - 1)

Repair(cleaned) ==
    LET quoted == IF QuoteCount(cleaned) % 2 # 0 THEN Append(cleaned, Q) ELSE cleaned
        opens == CountOf(quoted, {"{", "["})
        closes == CountOf(quoted, {"}", "]"})
    IN  CloseOpen(quoted, opens - closes)

Returned(v) == [kind |-> "value", v |-> v]
Raised == [kind |-> "raised", v |-> <<>>]

\* a mutant of RepairFailed: the second SyntaxError is not caught
RepairFailedRethrows == Raised

\* lines 47-50: the catch of the second JSON.parse
RepairFailed == Returned(EmptyObject)

\* lines 29-31: the first JSON.parse
FirstParse(cleaned) == JSONparse(cleaned)

\* lines 15-52
safeParseJSON(text) ==
    LET cleaned == Cleaned(text)
        first == FirstParse(cleaned)
    IN  IF first.ok THEN Returned(first.v)
        ELSE LET second == JSONparse(Repair(cleaned)) IN
             IF second.ok THEN Returned(second.v) ELSE RepairFailed

\* the faults to draw for documents of up to maxPages pages
SplitFaults(maxPages, pagesPerChunk) == 0..(Ceil(maxPages, pagesPerChunk) + 1)

\* ============================================================ orchestrator

Jobs == 1..MaxJobs

NoTask == [status |-> "null", message |-> "", details |-> <<>>, by |-> 0]

\* setBgTask({status, message, details}); by is a ghost field naming the
\* job whose handler wrote the slot
Task(j, status, message, details) ==
    [status |-> status, message |-> message, details |-> details, by |-> j]

IdleJob ==
    [kind |-> "none", pc |-> "idle", nChunks |-> 0,
     i |-> 0, createdNotes |-> <<>>, returned |-> <<>>, hist |-> <<>>,
     timer |-> "none"]

\* What an awaited structuring call can do: return its result, or throw.
Outcomes == {"ok", "throw"}

\* a mutant of NoteTitle: the part number is the 0-based loop index
NoteTitleZeroBased(title, i, n) ==
    IF n > 1 THEN <<title, " (Part ", i, ")">> ELSE <<title>>

\* App.tsx 154-157
NoteTitle(title, i, n) ==
    IF n > 1 THEN <<title, " (Part ", i + 1, ")">> ELSE <<title>>

\* The title processPdf returns for the chunk at index i (pdfData.title):
\* the model's answer, drawn so that the chunks of a job get different titles.
ReturnedTitle(i) == <<"T", i>>

\* a mutant of handleNoteCreated: the store is replaced by the new Notes
handleNoteCreatedReplacing(newNotes, prev) == newNotes

\* App.tsx 216-219
handleNoteCreated(newNotes, prev) == newNotes \o prev

\* App.tsx 176: the array handed to handleNoteCreated
PdfEmitted(createdNotes) == Reverse(createdNotes)

\* a mutant of StoreAfterChunk: each chunk's Note is surfaced as it completes
StoreAfterChunkEager(prev, newNote) == <<newNote>> \o prev

\* App.tsx 151-173: what a chunk's iteration does to the note store (nothing:
\* the Note goes to the local createdNotes only)
StoreAfterChunk(prev, newNote) == prev

\* App.tsx 180-184: what the catch block does to the note store (nothing)
StoreAfterPdfFailure(prev, createdNotes) == prev

\* a mutant of OrganizingPdf: the part number is the 0-based loop index
OrganizingPdfZeroBased(j, i, n) ==
    Task(j, "organizing", "Reading PDF...", <<"Processing part ", i, " of ", n, "...">>)

\* App.tsx 145-149
OrganizingPdf(j, i, n) ==
    Task(j, "organizing", "Reading PDF...", <<"Processing part ", i + 1, " of ", n, "...">>)

OrchUnchanged == UNCHANGED <<sp, dec, rec, ex, svc>>

\* The next invocation gets the lowest unused job number.
Fresh(j) == jobs[j].kind = "none" /\ \A k \in Jobs : k < j => jobs[k].kind # "none"

\* a mutant of DismissScheduled: no timer is set
DismissNotScheduled == "none"

\* App.tsx 126, 130, 178, 183, 207, 211: setTimeout(() => setBgTask(null), ..)
\* after a terminal status; the timer of the job is pending from then on
DismissScheduled == "pending"

\* ---- audio: App.tsx 100-132

\* lines 100-105, up to the await of transcribeAudio
HandleProcessAudio(j) ==
    /\ Fresh(j)
    /\ bgTask' = Task(j, "processing", "Transcribing Audio...", <<"Listening to your recording...">>)
    /\ jobs' = [jobs EXCEPT ![j].kind = "audio", ![j].pc = "transcribeAudio",
                            ![j].hist = <<"processing">>]
    /\ UNCHANGED notes
    /\ OrchUnchanged

\* a mutant of AudioCatchStatus: the failure is reported as still organizing
AudioCatchStatusOrganizing == "organizing"

\* status written by the catch block, lines 127-131
AudioCatchStatus == "error"

\* lines 105-108 (transcribeAudio returned) or 127-131 (it threw)
TranscribeAudioReturns(j, ok) ==
    /\ jobs[j].kind = "audio" /\ jobs[j].pc = "transcribeAudio"
    /\ IF ok
       THEN /\ bgTask' = Task(j, "organizing", "Organizing Notes...", <<"Structuring content with AI...">>)
            /\ jobs' = [jobs EXCEPT ![j].pc = "organizeNote",
                                    ![j].hist = Append(@, "organizing")]
       ELSE /\ bgTask' = Task(j, AudioCatchStatus, "Processing Failed", <<"Could not process audio.">>)
            /\ jobs' = [jobs EXCEPT ![j].pc = "done", ![j].timer = DismissScheduled,
                                    ![j].hist = Append(@, AudioCatchStatus)]
    /\ UNCHANGED notes
    /\ OrchUnchanged

\* lines 108-126 (organizeNote returned) or 127-131 (it threw)
OrganizeNoteReturns(j, out) ==
    /\ jobs[j].kind = "audio" /\ jobs[j].pc = "organizeNote"
    /\ IF out # "throw"
       THEN LET newNote == [id |-> <<j, 1>>, title |-> <<ReturnedTitle(0)>>, type |-> "audio"]
            IN  /\ notes' = handleNoteCreated(<<newNote>>, notes)
                /\ bgTask' = Task(j, "success", "Audio Note Created!", <<"Saved ", newNote.title>>)
                /\ jobs' = [jobs EXCEPT ![j].pc = "done", ![j].timer = DismissScheduled,
                                        ![j].hist = Append(@, "success")]
       ELSE /\ bgTask' = Task(j, AudioCatchStatus, "Processing Failed", <<"Could not process audio.">>)
            /\ jobs' = [jobs EXCEPT ![j].pc = "done", ![j].timer = DismissScheduled,
                                    ![j].hist = Append(@, AudioCatchStatus)]
            /\ UNCHANGED notes
    /\ OrchUnchanged

\* ---- PDF: App.tsx 134-185

\* lines 134-140, up to the await of splitPdf
HandleProcessPdf(j) ==
    /\ Fresh(j)
    /\ bgTask' = Task(j, "processing", "Analyzing PDF...", <<"Scanning document pages...">>)
    /\ jobs' = [jobs EXCEPT ![j].kind = "pdf", ![j].pc = "splitPdf",
                            ![j].hist = <<"processing">>]
    /\ UNCHANGED notes
    /\ OrchUnchanged

\* lines 140-152: splitPdf returned (it never throws); the loop is entered
\* and runs up to the await of processPdf for the first chunk.  The uploaded
\* blob (a document of n pages) is read by splitPdf only, so its page count
\* is drawn here; of pdfChunks the handler reads the length and hands each
\* element to processPdf, so the job keeps the length.
SplitPdfReturns(j, n, fault) ==
    /\ jobs[j].kind = "pdf" /\ jobs[j].pc = "splitPdf"
    /\ LET pdfChunks == splitPdf(InputBlob(n), PagesPerChunk, fault) IN
       /\ bgTask' = OrganizingPdf(j, 0, Len(pdfChunks))
       /\ jobs' = [jobs EXCEPT ![j].pc = "processPdf", ![j].nChunks = Len(pdfChunks),
                               ![j].i = 0, ![j].createdNotes = <<>>,
                               ![j].hist = Append(@, "organizing")]
    /\ UNCHANGED notes
    /\ OrchUnchanged

\* lines 152-178 (processPdf returned for chunk i) or 180-184 (it threw)
ProcessPdfReturns(j, out) ==
    /\ jobs[j].kind = "pdf" /\ jobs[j].pc = "processPdf"
    /\ LET J == jobs[j]
           n == J.nChunks
           title == ReturnedTitle(J.i)
           newNote == [id |-> <<j, J.i + 1>>, title |-> NoteTitle(title, J.i, n), type |-> "pdf"]
           created == Append(J.createdNotes, newNote)
       IN
       IF out = "throw"
       THEN /\ notes' = StoreAfterPdfFailure(notes, J.createdNotes)
            /\ bgTask' = Task(j, "error", "Processing Failed", <<"Could not read PDF.">>)
            /\ jobs' = [jobs EXCEPT ![j].pc = "done", ![j].timer = DismissScheduled,
                                    ![j].hist = Append(@, "error")]
       ELSE IF J.i + 1 < n
       THEN /\ notes' = StoreAfterChunk(notes, newNote)
            /\ bgTask' = OrganizingPdf(j, J.i + 1, n)
            /\ jobs' = [jobs EXCEPT ![j].i = J.i + 1, ![j].createdNotes = created,
                                    ![j].returned = Append(@, title),
                                    ![j].hist = Append(@, "organizing")]
       ELSE /\ notes' = handleNoteCreated(PdfEmitted(created), StoreAfterChunk(notes, newNote))
            /\ bgTask' = Task(j, "success", "PDF Processed!", <<"Created ", Len(created), " notes.">>)
            /\ jobs' = [jobs EXCEPT ![j].pc = "done", ![j].timer = DismissScheduled,
                                    ![j].i = J.i + 1, ![j].createdNotes = created,
                                    ![j].returned = Append(@, title),
                                    ![j].hist = Append(@, "success")]
    /\ OrchUnchanged

\* ---- image: App.tsx 187-213

\* lines 187-192, up to the await of convertImageToNote
HandleProcessImage(j) ==
    /\ Fresh(j)
    /\ bgTask' = Task(j, "processing", "Reading Image...", <<"Extracting text from image...">>)
    /\ jobs' = [jobs EXCEPT ![j].kind = "image", ![j].pc = "convertImageToNote",
                            ![j].hist = <<"processing">>]
    /\ UNCHANGED notes
    /\ OrchUnchanged

\* a mutant of ImageCatchStatus
ImageCatchStatusProcessing == "processing"

\* App.tsx 210: status: 'error'
ImageCatchStatus == "error"

\* a mutant of ImageNoteType
ImageNoteTypeImage == "image"

\* App.tsx 198: type: 'text'
ImageNoteType == "text"

\* lines 192-207 (convertImageToNote returned) or 208-212 (it threw)
ConvertImageToNoteReturns(j, out) ==
    /\ jobs[j].kind = "image" /\ jobs[j].pc = "convertImageToNote"
    /\ IF out # "throw"
       THEN LET newNote == [id |-> <<j, 1>>, title |-> <<ReturnedTitle(0)>>, type |-> ImageNoteType]
            IN  /\ notes' = handleNoteCreated(<<newNote>>, notes)
                /\ bgTask' = Task(j, "success", "Image Note Created!", <<"Image converted to text successfully.">>)
                /\ jobs' = [jobs EXCEPT ![j].pc = "done", ![j].timer = DismissScheduled,
                                        ![j].hist = Append(@, "success")]
       ELSE /\ bgTask' = Task(j, ImageCatchStatus, "Failed", <<"Could not read image.">>)
            /\ jobs' = [jobs EXCEPT ![j].pc = "done", ![j].timer = DismissScheduled,
                                    ![j].hist = Append(@, ImageCatchStatus)]
            /\ UNCHANGED notes
    /\ OrchUnchanged

\* the callback of setTimeout(() => setBgTask(null), ...): lines 126, 130,
\* 178, 183, 207, 211
TimerFires(j) ==
    /\ jobs[j].timer = "pending"
    /\ bgTask' = NoTask
    /\ jobs' = [jobs EXCEPT ![j].timer = "fired"]
    /\ UNCHANGED notes
    /\ OrchUnchanged

\* The component state the handlers touch.  recState is the state of the
\* browser's SpeechRecognition object: "inactive" (not started), "active"
\* (started), "stopping" (still started, ending after stop() or an error: the
\* pending results and the end event are yet to be delivered).  lastEvent
\* and lastStart are ghost fields: the handler that ran last, and what its
\* call of recognition.start() did ("none": no call).
IdleRec ==
    [mode |-> "SELECT", isRecording |-> FALSE, isRecordingRef |-> FALSE,
     recognitionRef |-> "null", recState |-> "inactive",
     transcriptRef |-> <<>>, liveTranscript |-> <<>>, interimText |-> <<>>,
     lastEvent |-> "none", lastStart |-> "none"]

\* no call of extractTextFromPdfBlob in progress
IdleEx == [pc |-> "off"]

\* no service call in progress
IdleSvc == [pc |-> "off"]

InitIdle ==
    /\ sp = [pc |-> "off", n |-> 0, k |-> 1, fault |-> 0, thrown |-> FALSE, result |-> <<>>]
    /\ dec = [pc |-> "off", payload |-> <<>>, fence |-> "none", text |-> <<>>,
              result |-> [kind |-> "none", v |-> <<>>]]
    /\ rec = IdleRec
    /\ ex = IdleEx
    /\ svc = IdleSvc

Init ==
    /\ bgTask = NoTask
    /\ notes = <<>>
    /\ jobs = [j \in Jobs |-> IdleJob]
    /\ InitIdle

Next ==
    \/ \E j \in Jobs : HandleProcessAudio(j)
    \/ \E j \in Jobs, ok \in BOOLEAN : TranscribeAudioReturns(j, ok)
    \/ \E j \in Jobs, out \in Outcomes : OrganizeNoteReturns(j, out)
    \/ \E j \in Jobs : HandleProcessPdf(j)
    \/ \E j \in Jobs, n \in 0..MaxDocPages, fault \in SplitFaults(MaxDocPages, PagesPerChunk) :
          SplitPdfReturns(j, n, fault)
    \/ \E j \in Jobs, out \in Outcomes : ProcessPdfReturns(j, out)
    \/ \E j \in Jobs : HandleProcessImage(j)
    \/ \E j \in Jobs, out \in Outcomes : ConvertImageToNoteReturns(j, out)
    \/ \E j \in Jobs : TimerFires(j)

Spec == Init /\ [][Next]_vars

\* the awaited stage of job j returns or throws
StageSettles(j) ==
    \/ \E ok \in BOOLEAN : TranscribeAudioReturns(j, ok)
    \/ \E out \in Outcomes : OrganizeNoteReturns(j, out)
    \/ \E n \in 0..MaxDocPages, fault \in SplitFaults(MaxDocPages, PagesPerChunk) :
          SplitPdfReturns(j, n, fault)
    \/ \E out \in Outcomes : ProcessPdfReturns(j, out)
    \/ \E out \in Outcomes : ConvertImageToNoteReturns(j, out)

\* Every awaited stage eventually returns or throws, and every timer set
\* with setTimeout eventually fires.
Fairness == \A j \in Jobs : WF_vars(StageSettles(j)) /\ WF_vars(TimerFires(j))

SpecFair == Init /\ [][Next]_vars /\ Fairness

\* ------------------------------------------------- claims on the orchestrator

Last(s) == s[Len(s)]

\* the Notes of job j in the store, in store order
NotesOf(j) == SelectSeq(notes, LAMBDA x : x.id[1] = j)

IsPdfJob(j) == jobs[j].kind = "pdf"

\* C1, state part: no Note of a PDF job is in the store before the job is
\* done; a job that ended in success has all its Notes there, one per chunk;
\* a job that ended in error has none and stopped at the failing chunk.
C1_State ==
    \A j \in Jobs : IsPdfJob(j) =>
        /\ jobs[j].pc # "done" => NotesOf(j) = <<>>
        /\ jobs[j].pc = "done" =>
              \/ /\ Last(jobs[j].hist) = "success"
                 /\ Len(NotesOf(j)) = jobs[j].nChunks
                 /\ jobs[j].i = jobs[j].nChunks
              \/ /\ Last(jobs[j].hist) = "error"
                 /\ NotesOf(j) = <<>>
                 /\ jobs[j].i < jobs[j].nChunks

\* C1, step part: a step of a PDF job that leaves it in the chunk loop does
\* not change the store; the step that ends it in success adds all nChunks
\* Notes in that one update; a chunk whose structuring throws ends the job
\* at once with status error, the store unchanged.
C1_Step ==
    \A j \in Jobs :
        /\ (IsPdfJob(j) /\ jobs[j].pc = "processPdf" /\ jobs'[j] # jobs[j]) =>
              \/ jobs'[j].pc = "processPdf" /\ notes' = notes
              \/ /\ jobs'[j].pc = "done" /\ Last(jobs'[j].hist) = "success"
                 /\ Len(notes') = Len(notes) + jobs[j].nChunks
                 /\ jobs[j].i = jobs[j].nChunks - 1
              \/ /\ jobs'[j].pc = "done" /\ Last(jobs'[j].hist) = "error"
                 /\ notes' = notes
        /\ ProcessPdfReturns(j, "throw") =>
              /\ jobs'[j].pc = "done" /\ jobs'[j].i = jobs[j].i
              /\ Last(jobs'[j].hist) = "error" /\ bgTask'.status = "error"
              /\ notes' = notes

\* C1: the PDF path is all-or-nothing: the store is untouched while the
\* chunks of a job are processed, all its Notes are added in one update
\* after the last chunk, and a failing chunk stops the job with zero Notes
\* added and terminal status error.
C1_AllOrNothing == [](C1_State) /\ [][C1_Step]_vars

\* a three-chunk job whose second chunk failed after the first was built
C1_Witness ==
    \E j \in Jobs :
        /\ IsPdfJob(j) /\ jobs[j].nChunks = 3 /\ jobs[j].i = 1
        /\ Len(jobs[j].createdNotes) = 1
        /\ jobs[j].pc = "done" /\ Last(jobs[j].hist) = "error"
        /\ NotesOf(j) = <<>>

\* C2: a PDF job whose c chunks all succeeded has exactly c Notes in the
\* store, all of type pdf, one per chunk; for c > 1 the Note of chunk k
\* (1-based) is titled with the title returned for chunk k followed by
\* " (Part k)", for c = 1 with the returned title alone.
C2_OneNotePerChunk ==
    \A j \in Jobs :
        (IsPdfJob(j) /\ jobs[j].pc = "done" /\ Last(jobs[j].hist) = "success") =>
            LET c == jobs[j].nChunks
                ns == NotesOf(j)
            IN  /\ Len(ns) = c
                /\ Len(jobs[j].returned) = c
                /\ \A k \in 1..c :
                      /\ Cardinality({m \in 1..Len(ns) : ns[m].id = <<j, k>>}) = 1
                      /\ \A m \in 1..Len(ns) : ns[m].id = <<j, k>> =>
                            /\ ns[m].type = "pdf"
                            /\ ns[m].title =
                                 IF c > 1 THEN <<jobs[j].returned[k], " (Part ", k, ")">>
                                 ELSE <<jobs[j].returned[k]>>

\* a job of three chunks and a job of one chunk, both ended in success
C2_Witness ==
    /\ \E j \in Jobs : IsPdfJob(j) /\ jobs[j].nChunks = 3 /\ Len(NotesOf(j)) = 3
    /\ \E j \in Jobs : IsPdfJob(j) /\ jobs[j].nChunks = 1 /\ Len(NotesOf(j)) = 1

\* C3, state part: the statuses an audio job has written so far
C3_State ==
    \A j \in Jobs : jobs[j].kind = "audio" =>
        /\ jobs[j].hist \in {<<"processing">>, <<"processing", "organizing">>,
                             <<"processing", "organizing", "success">>,
                             <<"processing", "error">>,
                             <<"processing", "organizing", "error">>}
        /\ jobs[j].pc = "done" <=> Last(jobs[j].hist) \in {"success", "error"}

\* C3, step part: which stage outcome gives which sequence
C3_Step ==
    \A j \in Jobs :
        /\ TranscribeAudioReturns(j, FALSE) =>
              jobs'[j].hist = <<"processing", "error">> /\ jobs'[j].pc = "done"
        /\ OrganizeNoteReturns(j, "throw") =>
              jobs'[j].hist = <<"processing", "organizing", "error">>
        /\ OrganizeNoteReturns(j, "ok") =>
              jobs'[j].hist = <<"processing", "organizing", "success">>
        /\ jobs'[j].hist # jobs[j].hist =>
              /\ bgTask'.by = j
              /\ bgTask'.status = Last(jobs'[j].hist)

\* C3: an audio job writes processing, organizing, success when both stages
\* succeed, processing, error when transcription fails (organizing is never
\* written then), and processing, organizing, error when structuring fails.
C3_AudioSequence == [](C3_State) /\ [][C3_Step]_vars

\* one audio job failed in transcription, another succeeded
C3_Witness ==
    /\ \E j \in Jobs : jobs[j].kind = "audio" /\ jobs[j].hist = <<"processing", "error">>
    /\ \E j \in Jobs : jobs[j].kind = "audio"
                       /\ jobs[j].hist = <<"processing", "organizing", "success">>

\* C14, state part: the statuses an image job has written so far, and its
\* Notes in the store
C14_State ==
    \A j \in Jobs : jobs[j].kind = "image" =>
        /\ jobs[j].hist \in {<<"processing">>, <<"processing", "success">>,
                             <<"processing", "error">>}
        /\ Last(jobs[j].hist) = "success" =>
              Len(NotesOf(j)) = 1 /\ NotesOf(j)[1].type = "text"
        /\ Last(jobs[j].hist) # "success" => NotesOf(j) = <<>>

\* C14, step part: each status of an image job goes to the job slot, and it
\* is never organizing
C14_Step ==
    \A j \in Jobs : (jobs'[j].kind = "image" /\ jobs'[j].hist # jobs[j].hist) =>
        /\ bgTask'.by = j
        /\ bgTask'.status = Last(jobs'[j].hist)
        /\ bgTask'.status # "organizing"
        /\ bgTask'.status = "error" => notes' = notes

\* C14: an image job writes processing then success, or processing then
\* error, never organizing; on success exactly one Note of type text is
\* added to the store, on error none.
C14_ImageSequence == [](C14_State) /\ [][C14_Step]_vars

\* one image job succeeded, another failed
C14_Witness ==
    /\ \E j \in Jobs : jobs[j].kind = "image" /\ jobs[j].hist = <<"processing", "success">>
                       /\ Len(NotesOf(j)) = 1
    /\ \E j \in Jobs : jobs[j].kind = "image" /\ jobs[j].hist = <<"processing", "error">>

\* C15 as claimed: in the audio path both stage failures end in error, and
\* the message after a failed transcription is not the message after a
\* failed structuring ("Could not process audio.").
C15_StageMessages ==
    [][\A j \in Jobs :
          /\ OrganizeNoteReturns(j, "throw") =>
                /\ bgTask'.status = "error"
                /\ bgTask'.details = <<"Could not process audio.">>
          /\ TranscribeAudioReturns(j, FALSE) =>
                /\ bgTask'.status = "error"
                /\ bgTask'.details # <<"Could not process audio.">>]_vars

\* C16 as claimed: the Notes of a PDF job are handed to the store in source
\* order, the Note of chunk i before the Note of chunk i+1 (the array is
\* prepended as a block, so it is the job's Notes in store order).
C16_SourceOrder ==
    \A j \in Jobs : IsPdfJob(j) =>
        \A a, b \in 1..Len(NotesOf(j)) :
            a < b => NotesOf(j)[a].id[2] < NotesOf(j)[b].id[2]

\* C19, state part: a job that ended has all the Notes it emitted in the
\* store (one, or one per chunk), a job that failed has none, and no two
\* Notes of the store are the same
C19_State ==
    /\ \A j \in Jobs : jobs[j].pc = "done" =>
          Len(NotesOf(j)) = IF Last(jobs[j].hist) # "success" THEN 0
                            ELSE IF IsPdfJob(j) THEN jobs[j].nChunks ELSE 1
    /\ \A a, b \in 1..Len(notes) : a # b => notes[a].id # notes[b].id

\* C19, step part: every step keeps the store as the tail of the new store,
\* and a step that writes error keeps the store
C19_Step ==
    /\ Len(notes') >= Len(notes)
    /\ SubSeq(notes', Len(notes') - Len(notes) + 1, Len(notes')) = notes
    /\ \A j \in Jobs :
          (jobs'[j].hist # jobs[j].hist /\ Last(jobs'[j].hist) = "error") => notes' = notes

\* C19: the pipeline only adds Notes: every Note of the store, and every
\* Note a successful job emitted, stays in the store unchanged, in the same
\* relative order, new Notes in front; a failed job leaves the store as it
\* was.  Jobs may overlap.
C19_OnlyAdds == [](C19_State) /\ [][C19_Step]_vars

\* a PDF job of three chunks and an audio job both succeeded, the audio Note
\* stored first: the store holds the three PDF Notes in front of it
C19_Witness ==
    /\ Len(notes) = 4
    /\ \E j, k \in Jobs :
          /\ IsPdfJob(j) /\ jobs[k].kind = "audio"
          /\ \A x \in 1..3 : notes[x].id[1] = j
          /\ notes[4].id[1] = k


\* C21, state part: while the structuring call of the chunk at index i is in
\* flight, the Notes of the chunks 0 .. i-1, and only they, are materialized,
\* in index order
C21_State ==
    \A j \in Jobs : (IsPdfJob(j) /\ jobs[j].pc = "processPdf") =>
        /\ jobs[j].i < jobs[j].nChunks
        /\ Len(jobs[j].createdNotes) = jobs[j].i
        /\ \A x \in 1..jobs[j].i : jobs[j].createdNotes[x].id = <<j, x>>

\* C21, step part: the index moves by one chunk at a time, and the organizing
\* status written before the chunk at index i reports i + 1 and the total
C21_Step ==
    \A j \in Jobs : (IsPdfJob(j) /\ jobs'[j].pc = "processPdf" /\ jobs'[j] # jobs[j]) =>
        /\ jobs'[j].i = IF jobs[j].pc = "processPdf" THEN jobs[j].i + 1 ELSE 0
        /\ bgTask'.by = j /\ bgTask'.status = "organizing"
        /\ bgTask'.details =
              <<"Processing part ", jobs'[j].i + 1, " of ", jobs'[j].nChunks, "...">>

\* C21: within a PDF job the chunks are processed in index order, one at a
\* time: the call for chunk i+1 starts only after the Note of chunk i is
\* materialized, and the organizing status before chunk i names i (1-based)
\* and the number of chunks.
C21_ChunkOrder == [](C21_State) /\ [][C21_Step]_vars

\* the third of three chunks is being processed
C21_Witness ==
    \E j \in Jobs :
        /\ IsPdfJob(j) /\ jobs[j].pc = "processPdf" /\ jobs[j].nChunks = 3 /\ jobs[j].i = 2
        /\ Len(jobs[j].createdNotes) = 2
        /\ bgTask = Task(j, "organizing", "Reading PDF...",
                         <<"Processing part ", 3, " of ", 3, "...">>)

\* a terminal status
Terminal == {"success", "error"}

\* the last status job j wrote is a terminal one
WroteTerminal(j) ==
    jobs[j].hist # <<>> /\ jobs[j].hist[Len(jobs[j].hist)] \in Terminal

\* C25, state part: a job has written at most one terminal status, as its
\* last status, and exactly when its handler has ended
C25_State ==
    \A j \in Jobs : jobs[j].kind # "none" =>
        /\ \A x \in 1..(Len(jobs[j].hist) - 1) : jobs[j].hist[x] \notin Terminal
        /\ jobs[j].pc = "done" <=> WroteTerminal(j)

\* C25, step part: after its terminal status a job writes no other status
C25_Step ==
    \A j \in Jobs :
        WroteTerminal(j) =>
            /\ jobs'[j].hist = jobs[j].hist
            /\ bgTask'.by = j => (bgTask.by = j /\ bgTask'.status = bgTask.status)

\* C25: provided every awaited stage eventually returns or throws, every
\* submitted job eventually writes a terminal status, exactly one, and no
\* status after it.
C25_JobTerminates ==
    /\ [](C25_State)
    /\ [][C25_Step]_vars
    /\ \A j \in Jobs : (jobs[j].kind # "none") ~> WroteTerminal(j)

\* a PDF job of three chunks ended in success and an audio job in error
C25_Witness ==
    \E j, k \in Jobs :
        /\ IsPdfJob(j) /\ jobs[j].nChunks = 3 /\ WroteTerminal(j)
        /\ jobs[j].hist[Len(jobs[j].hist)] = "success" /\ Len(jobs[j].hist) = 5
        /\ jobs[k].kind = "audio" /\ WroteTerminal(k)
        /\ jobs[k].hist[Len(jobs[k].hist)] = "error"

\* the slot is empty (bgTask is null)
SlotEmpty == bgTask.status = "null"

\* job j is the only job submitted so far
SoleJob(j) == jobs[j].kind # "none" /\ \A k \in Jobs \ {j} : jobs[k].kind = "none"

\* C26, state part: while the only job submitted has not written its terminal
\* status, the slot is not empty
C26_State == \A j \in Jobs : (SoleJob(j) /\ ~WroteTerminal(j)) => ~SlotEmpty

\* C26, step part: the slot is emptied only by the timer a job set when it
\* wrote its terminal status
C26_Step ==
    (~SlotEmpty /\ SlotEmpty') =>
        \E j \in Jobs : /\ WroteTerminal(j)
                        /\ jobs[j].timer = DismissScheduled
                        /\ jobs'[j].timer = "fired"
                        /\ jobs'[j].hist = jobs[j].hist

C28_TimerOwnStatus ==
    [][\A j \in Jobs :
          TimerFires(j) => (SlotEmpty \/ (bgTask.by = j /\ bgTask.status \in Terminal))]_vars

\* job k was submitted after job j (jobs are numbered in order of submission)
SubmittedAfter(k, j) == k > j /\ jobs[k].kind # "none"

\* C29: once a later job is submitted, no status of an earlier job is written
\* to the slot, and the status shown goes from a terminal one back to
\* processing or organizing only by a new submission.
C29_LatestJobOwnsSlot ==
    [][/\ \A j \in Jobs :
            (jobs'[j].hist # jobs[j].hist /\ jobs[j].kind # "none") =>
                \A k \in Jobs : ~SubmittedAfter(k, j)
       /\ (bgTask.status \in Terminal /\ bgTask'.status \in {"processing", "organizing"}) =>
            \E j \in Jobs : jobs[j].kind = "none" /\ jobs'[j].kind # "none"]_vars

\* ================================================== splitPdf on its own

\* lines 89-116: one call of splitPdf(pdfBlob, pagesPerChunk)
SplitPdfCall ==
    /\ sp.pc = "call"
    /\ sp' = [sp EXCEPT !.pc = "done",
                        !.thrown = SplitThrows(InputBlob(sp.n), sp.k, sp.fault),
                        !.result = splitPdf(InputBlob(sp.n), sp.k, sp.fault)]
    /\ UNCHANGED <<bgTask, notes, jobs, dec, rec, ex, svc>>

InitSplit ==
    /\ bgTask = NoTask
    /\ notes = <<>>
    /\ jobs = [j \in Jobs |-> IdleJob]
    /\ dec = [pc |-> "off", payload |-> <<>>, fence |-> "none", text |-> <<>>,
              result |-> [kind |-> "none", v |-> <<>>]]
    /\ rec = IdleRec
    /\ ex = IdleEx
    /\ svc = IdleSvc
    /\ \E n \in 0..MaxSplitPages, k \in 1..MaxSplitK, fault \in SplitFaults(MaxSplitPages, 1) :
          sp = [pc |-> "call", n |-> n, k |-> k, fault |-> fault,
                thrown |-> FALSE, result |-> <<>>]

NextSplit == SplitPdfCall

SpecSplit == InitSplit /\ [][NextSplit]_vars

RECURSIVE ConcatPages(_)
ConcatPages(chunks) ==
    IF chunks = <<>> THEN <<>> ELSE Head(chunks).pages \o ConcatPages(Tail(chunks))

\* C4 as claimed: with nothing failing, every page count N and chunk size
\* K > 0 give exactly ceil(N/K) chunks, and N <= K gives the input itself.
C4_Original ==
    (sp.pc = "done" /\ sp.fault = 0) =>
        /\ Len(sp.result) = Ceil(sp.n, sp.k)
        /\ sp.n <= sp.k => sp.result = <<InputBlob(sp.n)>>

\* C4 as amended: for N >= 1 and K > 0, when parsing and splitting do not
\* fail, splitPdf returns exactly ceil(N/K) chunks; whenever N <= K (N = 0
\* included) it returns exactly one chunk, the input document itself.
C4_ChunkCount ==
    sp.pc = "done" =>
        /\ (~sp.thrown /\ sp.n >= 1) => Len(sp.result) = Ceil(sp.n, sp.k)
        /\ sp.n <= sp.k => sp.result = <<InputBlob(sp.n)>>
        /\ (~sp.thrown /\ sp.n > sp.k) => \A c \in 1..Len(sp.result) : sp.result[c].src = "copy"

\* seven pages in chunks of three, nothing failing: three chunks
C4_Witness ==
    /\ sp.pc = "done" /\ sp.n = 7 /\ sp.k = 3 /\ ~sp.thrown
    /\ Len(sp.result) = 3

\* C5: for N > K > 0 the page lists of the chunks splitPdf builds,
\* concatenated in chunk order, are 0 .. N-1: each page once, ascending; every
\* chunk but the last has K pages and the last has between 1 and K.
C5_Partition ==
    (sp.pc = "done" /\ sp.n > sp.k /\ ~sp.thrown) =>
        LET chunks == sp.result
            c == Len(chunks)
        IN  /\ ConcatPages(chunks) = [p \in 1..sp.n |-> p - 1]
            /\ c >= 1
            /\ \A x \in 1..(c - 1) : Len(chunks[x].pages) = sp.k
            /\ Len(chunks[c].pages) \in 1..sp.k
            /\ \A x \in 1..c : \A a, b \in 1..Len(chunks[x].pages) :
                  a < b => chunks[x].pages[a] < chunks[x].pages[b]

\* seven pages in chunks of three: the last chunk holds the one page left
C5_Witness ==
    /\ sp.pc = "done" /\ sp.n = 7 /\ sp.k = 3 /\ ~sp.thrown
    /\ Len(sp.result) = 3 /\ sp.result[3].pages = <<6>>

\* C18: if loading the document or building a chunk fails, also after some
\* chunks were built, splitPdf returns exactly one chunk, the input document
\* itself, and none of the chunks built.
C18_SplitFallback ==
    (sp.pc = "done"
        /\ (sp.fault = 1
            \/ (sp.fault >= 2 /\ sp.n > sp.k /\ sp.fault - 1 <= Ceil(sp.n, sp.k)))) =>
        /\ sp.thrown
        /\ sp.result = <<InputBlob(sp.n)>>

\* seven pages in chunks of three, the third chunk fails after two were built
C18_Witness ==
    /\ sp.pc = "done" /\ sp.n = 7 /\ sp.k = 3 /\ sp.fault = 4
    /\ sp.thrown /\ sp.result = <<InputBlob(7)>>


\* ============================================= safeParseJSON on its own

\* the characters texts are drawn from
DecChars == {"{", "}", "[", "]", Q, BSL, "1", ",", ":", NL, TAB, " "}

\* every text of at most n characters
TextsUpTo(n) == UNION {[1..m -> DecChars] : m \in 0..n}

Prefixes(d) == {SubSeq(d, 1, m) : m \in 0..Len(d)}

\* longer responses, and every truncation of them:
\*   {"a":["b",1]}      a compact object
\*   {\n "a":1\n}       the same kind of object, pretty-printed
\*   [\r\f1]            other control characters between tokens
SampleCompact == <<"{", Q, "a", Q, ":", "[", Q, "b", Q, ",", "1", "]", "}">>
SamplePretty == <<"{", NL, " ", Q, "a", Q, ":", "1", NL, "}">>
SampleControls == <<"[", CR, FF, "1", "]">>

Payloads ==
    TextsUpTo(MaxTextLen) \cup Prefixes(SampleCompact) \cup Prefixes(SamplePretty)
        \cup Prefixes(SampleControls)

FenceKinds == {"none", "json", "plain"}

\* the response text holding the payload, bare or in a markdown code fence
Wrap(fence, payload) ==
    IF fence = "json" THEN Fence \o <<"j", "s", "o", "n", NL>> \o payload \o <<NL>> \o Fence
    ELSE IF fence = "plain" THEN Fence \o <<NL>> \o payload \o <<NL>> \o Fence
    ELSE payload

\* lines 15-52: one call of safeParseJSON(text)
SafeParseJSONCall ==
    /\ dec.pc = "call"
    /\ dec' = [dec EXCEPT !.pc = "done", !.result = safeParseJSON(dec.text)]
    /\ UNCHANGED <<bgTask, notes, jobs, sp, rec, ex, svc>>

InitDecode ==
    /\ bgTask = NoTask
    /\ notes = <<>>
    /\ jobs = [j \in Jobs |-> IdleJob]
    /\ sp = [pc |-> "off", n |-> 0, k |-> 1, fault |-> 0, thrown |-> FALSE, result |-> <<>>]
    /\ rec = IdleRec
    /\ ex = IdleEx
    /\ svc = IdleSvc
    /\ \E payload \in Payloads, fence \in FenceKinds :
          dec = [pc |-> "call", payload |-> payload, fence |-> fence,
                 text |-> Wrap(fence, payload), result |-> [kind |-> "none", v |-> <<>>]]

NextDecode == SafeParseJSONCall

SpecDecode == InitDecode /\ [][NextDecode]_vars

\* C6: safeParseJSON never raises: every call returns a value, and when
\* neither the strict parse nor the parse after the repair succeeds the value
\* is the empty object.
C6_NeverRaises ==
    dec.pc = "done" =>
        /\ dec.result.kind = "value"
        /\ (~JSONparse(Cleaned(dec.text)).ok /\ ~JSONparse(Repair(Cleaned(dec.text))).ok)
              => dec.result = Returned(EmptyObject)

\* a text that stays unparseable after the repair ("]"), decoded to {}
C6_Witness ==
    /\ dec.pc = "done" /\ dec.text = <<"]">>
    /\ ~JSONparse(Repair(Cleaned(dec.text))).ok
    /\ dec.result = Returned(EmptyObject)

\* C7 as claimed: for every well-formed JSON payload, whatever whitespace is
\* between its tokens and fenced or not, safeParseJSON returns the structure
\* a strict JSON parse of the payload yields.
C7_WellFormedExact ==
    (dec.pc = "done" /\ JSONparse(dec.payload).ok) =>
        dec.result = Returned(JSONparse(dec.payload).v)

\* the opening characters of s that are still un-closed after its first i
\* characters, the latest last: an opening character is pushed, a closing
\* character closes the latest un-closed one
RECURSIVE Unclosed(_, _, _)
Unclosed(s, i, stack) ==
    IF i > Len(s) THEN stack
    ELSE IF s[i] \in {"{", "["} THEN Unclosed(s, i + 1, Append(stack, s[i]))
    ELSE IF s[i] \in {"}", "]"} /\ stack # <<>>
         THEN Unclosed(s, i + 1, SubSeq(stack, 1, Len(stack) - 1))
    ELSE Unclosed(s, i + 1, stack)

\* n closing characters, each for the latest opening character still
\* un-closed at that point
RECURSIVE ClosersFor(_, _)
ClosersFor(stack, n) ==
    IF n <= 0 \/ stack = <<>> THEN <<>>
    ELSE <<IF stack[Len(stack)] = "[" THEN "]" ELSE "}">>
         \o ClosersFor(SubSeq(stack, 1, Len(stack) - 1), n - 1)

\* C22 as claimed: when the strict parse fails, the repaired text is the
\* text, then one closing quote if and only if the number of double quotes
\* not preceded by a backslash is odd, then (opening minus closing
\* characters) closing characters, each one matching the latest opening
\* character still un-closed at that point.
C22_RepairClosers ==
    (dec.pc = "done" /\ ~JSONparse(Cleaned(dec.text)).ok) =>
        LET cleaned == Cleaned(dec.text)
            odd == Cardinality({x \in 1..Len(cleaned) :
                       cleaned[x] = Q /\ (x = 1 \/ cleaned[x - 1] # BSL)}) % 2 = 1
            quoted == IF odd THEN cleaned \o <<Q>> ELSE cleaned
            n == Cardinality({x \in 1..Len(quoted) : quoted[x] \in {"{", "["}})
                    - Cardinality({x \in 1..Len(quoted) : quoted[x] \in {"}", "]"}})
        IN  Repair(cleaned) = quoted \o ClosersFor(Unclosed(quoted, 1, <<>>), n)

\* ============================================================ AudioRecorder
\* The speech-to-text capture of the AudioRecorder component: one session,
\* from the SELECT screen through RECORD to REVIEW.

\* transcripts of recognizer results, each a string of one token
Transcripts == {<<"the cat">>, <<"the cat sat.">>}

Segments == [isFinal : BOOLEAN, transcript : Transcripts]

\* a result event: event.results and event.resultIndex (0-based), with at
\* least one result from resultIndex on
ResultLists == UNION {[1..m -> Segments] : m \in 1..MaxEventLen}

Events ==
    UNION {{[results |-> r, resultIndex |-> x] : x \in 0..(Len(r) - 1)} :
              r \in ResultLists}

\* a mutant of AppendConfirmed: the finalized text overwrites the buffer
OverwriteConfirmed(buffer, final) == final

\* part_000 449: transcriptRef.current += final
AppendConfirmed(buffer, final) == buffer \o final

\* part_000 440-447: the loop over event.results from index i (0-based), with
\* the locals interim and final
RECURSIVE ResultLoop(_, _, _, _)
ResultLoop(results, i, interim, final) ==
    IF ~(i < Len(results)) THEN [interim |-> interim, final |-> final]
    ELSE LET transcript == results[i + 1].transcript IN
         IF results[i + 1].isFinal
         THEN ResultLoop(results, i + 1, interim, final \o transcript \o <<" ">>)
         ELSE ResultLoop(results, i + 1, transcript, final)

\* recognition.start(): throws InvalidStateError on a started object
StartOutcome(recState) == IF recState = "inactive" THEN "ok" ELSE "threw"
AfterStart(recState) == IF recState = "inactive" THEN "active" ELSE recState

\* a mutant of ShouldRestartOnEnd: the end handler never restarts
NeverRestartOnEnd(isRecordingRef) == FALSE

\* part_000 465: if (isRecordingRef.current)
ShouldRestartOnEnd(isRecordingRef) == isRecordingRef

RecUnchanged == UNCHANGED <<bgTask, notes, jobs, sp, dec, ex, svc>>

\* part_000 424-484 (the browser supports SpeechRecognition)
StartRecording ==
    /\ rec.mode = "SELECT" /\ rec.recognitionRef = "null"
    /\ rec' = [rec EXCEPT !.recognitionRef = "recognition", !.recState = "active",
                          !.isRecording = TRUE, !.isRecordingRef = TRUE,
                          !.mode = "RECORD", !.liveTranscript = <<>>,
                          !.interimText = <<>>, !.transcriptRef = <<>>,
                          !.lastEvent = "start", !.lastStart = "ok"]
    /\ RecUnchanged

\* part_000 437-453: recognition.onresult.  The browser delivers results
\* while the object is started, also those pending when stop() was called.
OnResult(event) ==
    /\ rec.recState \in {"active", "stopping"}
    /\ Len(rec.transcriptRef) < MaxBufferLen
    /\ LET r == ResultLoop(event.results, event.resultIndex, <<>>, <<>>)
           buffer == IF r.final # <<>> THEN AppendConfirmed(rec.transcriptRef, r.final)
                     ELSE rec.transcriptRef
       IN  rec' = [rec EXCEPT !.transcriptRef = buffer,
                              !.liveTranscript = IF r.final # <<>> THEN buffer ELSE @,
                              !.interimText = r.interim,
                              !.lastEvent = "result", !.lastStart = "none"]
    /\ RecUnchanged

\* part_000 455-461: recognition.onerror.  started is whether the browser
\* still counts the object as started when the handler runs (browsers
\* differ); if so the session is ending and the end event follows.
OnError(code, started) ==
    /\ rec.recState \in {"active", "stopping"}
    /\ LET atDispatch == IF started THEN "stopping" ELSE "inactive" IN
       rec' = [rec EXCEPT
                 !.recState = IF code = "no-speech" THEN AfterStart(atDispatch) ELSE atDispatch,
                 !.lastStart = IF code = "no-speech" THEN StartOutcome(atDispatch) ELSE "none",
                 !.lastEvent = IF code = "no-speech" THEN "error:no-speech" ELSE "error"]
    /\ RecUnchanged

\* part_000 463-468: recognition.onend; the object is no longer started
OnEnd ==
    /\ rec.recState \in {"active", "stopping"}
    /\ IF ShouldRestartOnEnd(rec.isRecordingRef)
       THEN rec' = [rec EXCEPT !.recState = AfterStart("inactive"),
                               !.lastStart = StartOutcome("inactive"),
                               !.lastEvent = "end"]
       ELSE rec' = [rec EXCEPT !.recState = "inactive", !.lastStart = "none",
                               !.lastEvent = "end"]
    /\ RecUnchanged

\* part_000 488-497.  stopThrows: recognition.stop() throws (caught).
StopRecording(stopThrows) ==
    /\ rec.mode = "RECORD"
    /\ rec' = [rec EXCEPT !.isRecording = FALSE, !.isRecordingRef = FALSE,
                          !.recState = IF ~stopThrows /\ @ = "active" THEN "stopping" ELSE @,
                          !.interimText = <<>>, !.mode = "REVIEW",
                          !.lastEvent = "stop", !.lastStart = "none"]
    /\ RecUnchanged

ErrorCodes == {"no-speech", "network"}

InitRec ==
    /\ bgTask = NoTask
    /\ notes = <<>>
    /\ jobs = [j \in Jobs |-> IdleJob]
    /\ sp = [pc |-> "off", n |-> 0, k |-> 1, fault |-> 0, thrown |-> FALSE, result |-> <<>>]
    /\ dec = [pc |-> "off", payload |-> <<>>, fence |-> "none", text |-> <<>>,
              result |-> [kind |-> "none", v |-> <<>>]]
    /\ rec = IdleRec
    /\ ex = IdleEx
    /\ svc = IdleSvc

NextRec ==
    \/ StartRecording
    \/ \E event \in Events : OnResult(event)
    \/ \E code \in ErrorCodes, started \in BOOLEAN : OnError(code, started)
    \/ OnEnd
    \/ \E stopThrows \in BOOLEAN : StopRecording(stopThrows)

SpecRec == InitRec /\ [][NextRec]_vars

\* ---- claims on the capture session

\* the results of an event from resultIndex on
Changed(event) == SubSeq(event.results, event.resultIndex + 1, Len(event.results))

\* each finalized segment followed by one space, in event order
RECURSIVE ConfirmedText(_)
ConfirmedText(segs) ==
    IF segs = <<>> THEN <<>>
    ELSE (IF Head(segs).isFinal THEN Head(segs).transcript \o <<" ">> ELSE <<>>)
         \o ConfirmedText(Tail(segs))

\* the last non-final segment, or the empty string
InterimOf(segs) ==
    LET at == {x \in 1..Len(segs) : ~segs[x].isFinal} IN
    IF at = {} THEN <<>>
    ELSE segs[CHOOSE x \in at : \A y \in at : y <= x].transcript

IsPrefix(a, b) == Len(a) <= Len(b) /\ SubSeq(b, 1, Len(a)) = a

\* C8: for every result event received while capturing, the confirmed buffer
\* after it is the buffer before it followed by each finalized segment of
\* the event plus one space, in event order, and the interim suffix is the
\* last non-final segment of the event or empty; so the old buffer is a
\* prefix of the new one and no interim text enters it.
C8_AppendReplace ==
    [][\A event \in Events :
          (rec.isRecordingRef /\ OnResult(event)) =>
              /\ rec'.transcriptRef = rec.transcriptRef \o ConfirmedText(Changed(event))
              /\ rec'.interimText = InterimOf(Changed(event))
              /\ IsPrefix(rec.transcriptRef, rec'.transcriptRef)]_vars

\* a result event whose only changed segment is the final "the cat sat."
\* leaves the confirmed buffer "the cat sat. " and no interim text
C8_Witness ==
    /\ rec.isRecordingRef /\ rec.lastEvent = "result"
    /\ rec.transcriptRef = <<"the cat sat.", " ">>
    /\ rec.interimText = <<>>

\* C9: while capturing, a no-speech error and an end event leave the session
\* capturing and the confirmed buffer as it was; the handler calls start():
\* after an end event the stream is open again, after a no-speech error it is
\* open again or still started (start() threw, the end event follows).
C9_KeepsCapturing ==
    [][rec.isRecordingRef =>
          /\ OnEnd =>
                /\ rec'.isRecordingRef /\ rec'.isRecording /\ rec'.mode = "RECORD"
                /\ rec'.transcriptRef = rec.transcriptRef
                /\ rec'.recState = "active" /\ rec'.lastStart = "ok"
          /\ \A started \in BOOLEAN : OnError("no-speech", started) =>
                /\ rec'.isRecordingRef /\ rec'.isRecording /\ rec'.mode = "RECORD"
                /\ rec'.transcriptRef = rec.transcriptRef
                /\ rec'.lastStart \in {"ok", "threw"}
                /\ rec'.recState # "inactive"
                /\ rec'.lastStart = "ok" => rec'.recState = "active"]_vars

\* a no-speech error after a confirmed result: still capturing
C9_Witness ==
    /\ rec.lastEvent = "error:no-speech" /\ rec.isRecordingRef /\ rec.mode = "RECORD"
    /\ rec.transcriptRef = <<"the cat sat.", " ">>
    /\ rec.recState = "active"

\* C10 as claimed: once stop() has run, the interim suffix is empty and stays
\* empty and the confirmed buffer never changes, whatever event is delivered.
C10_StopTerminal ==
    [][rec.mode = "REVIEW" =>
          /\ rec'.transcriptRef = rec.transcriptRef
          /\ rec'.interimText = <<>>]_vars

\* C30: once stop() was called no handler calls start() again, and the
\* stream, once it is closing or closed, is not opened again.
C30_NoReopenAfterStop ==
    [][rec.mode = "REVIEW" =>
          /\ rec'.lastStart = "none"
          /\ rec.recState # "active" => rec'.recState # "active"]_vars

\* ================================================== extractTextFromPdfBlob
\* src/services/pdfService.ts.  A document is [pageCount, chars]: chars is
\* the number of non-white-space characters of its text layer.  A fault is
\* [at, page]: the one await that rejects in this call ("none": no await
\* rejects; "load": arrayBuffer / getDocument; "text": getPage or
\* getTextContent of the text loop; "render": getPage or render of the OCR
\* loop; "ocr": Tesseract.recognize).

\* pdfService.ts 42: the comparison with 50
OcrThreshold == 50

\* pdfService.ts 50: the limit of 20 pages
OcrPageCap == 20

Min(a, b) == IF a <= b THEN a ELSE b

Xs(n) == [x \in 1..n |-> "x"]

\* Array.prototype.join
RECURSIVE Join(_, _)
Join(parts, sep) ==
    IF parts = <<>> THEN <<>>
    ELSE IF Len(parts) = 1 THEN parts[1]
    ELSE parts[1] \o sep \o Join(Tail(parts), sep)

\* textContent.items of page i, as the list of item.str: the characters of
\* the text layer are on the first two pages, between white space; the other
\* pages carry white space only or nothing
PageItems(doc, i) ==
    LET c == doc.chars IN
    IF i = 1 THEN (IF doc.pageCount = 1 THEN <<Xs(c - (c \div 2)), <<NL>>, Xs(c \div 2)>>
                   ELSE <<Xs(c - (c \div 2))>>)
    ELSE IF i = 2 THEN << <<" ">>, Xs(c \div 2), <<TAB>> >>
    ELSE IF i % 2 = 1 THEN << <<" ">>, <<" ">> >>
    ELSE <<>>

\* lines 30-33: items.map(item => item.str).join(' ').trim()
PageText(items) == Trim(Join(items, <<" ">>))

\* line 42: fullText.replace(/\s/g, '')
StripWs(s) == SelectSeq(s, LAMBDA ch : ~IsTrimWs(ch))

\* result.data.text of Tesseract.recognize on page i: every third page reads
\* as white space only
OcrResultText(doc, i) ==
    IF i % 3 = 0 THEN <<" ", NL>> ELSE <<" ", "p", ToString(i), NL>>

\* line 87: the partial-processing marker
OcrMarker(pagesToOcr, pageCount) ==
    <<NL, NL, "--- OCR processed first ", ToString(pagesToOcr), " of ",
      ToString(pageCount), " pages ---">>

\* lines 27-37: the text loop from page i on
RECURSIVE TextLoop(_, _, _, _)
TextLoop(doc, i, textParts, fault) ==
    IF ~(i <= doc.pageCount) THEN [thrown |-> FALSE, textParts |-> textParts]
    ELSE IF fault.at = "text" /\ fault.page = i
         THEN [thrown |-> TRUE, textParts |-> textParts]
    ELSE LET pageText == PageText(PageItems(doc, i)) IN
         TextLoop(doc, i + 1,
                  IF pageText # <<>> THEN Append(textParts, pageText) ELSE textParts,
                  fault)

\* a mutant of UseTextLayer: the threshold itself counts as meaningful text
UseTextLayerFrom50(fullText) == Len(StripWs(fullText)) >= OcrThreshold

\* line 42
UseTextLayer(fullText) == Len(StripWs(fullText)) > OcrThreshold

\* a mutant of PagesToOcr: no limit
PagesToOcrUncapped(pageCount) == pageCount

\* line 50
PagesToOcr(pageCount) == Min(pageCount, OcrPageCap)

\* a mutant of OcrFailed: the failed page leaves a placeholder text
OcrFailedPlaceholder(ocrParts) == Append(ocrParts, <<"?">>)

\* lines 75-77: the catch of Tesseract.recognize; ocrParts stays as it is
OcrFailed(ocrParts) == ocrParts

\* lines 52-81: the OCR loop from page i on; rendered and ocrd are the pages
\* given to page.render and to Tesseract.recognize, in call order
RECURSIVE OcrLoop(_, _, _, _, _, _, _)
OcrLoop(doc, i, pagesToOcr, ocrParts, rendered, ocrd, fault) ==
    IF ~(i <= pagesToOcr)
    THEN [thrown |-> FALSE, ocrParts |-> ocrParts, rendered |-> rendered, ocrd |-> ocrd]
    ELSE IF fault.at = "render" /\ fault.page = i
         THEN [thrown |-> TRUE, ocrParts |-> ocrParts,
               rendered |-> Append(rendered, i), ocrd |-> ocrd]
    ELSE IF fault.at = "ocr" /\ fault.page = i
         THEN OcrLoop(doc, i + 1, pagesToOcr, OcrFailed(ocrParts),
                      Append(rendered, i), Append(ocrd, i), fault)
    ELSE LET pageText == Trim(OcrResultText(doc, i)) IN
         OcrLoop(doc, i + 1, pagesToOcr,
                 IF pageText # <<>> THEN Append(ocrParts, pageText) ELSE ocrParts,
                 Append(rendered, i), Append(ocrd, i), fault)

\* what a call did: how it ended (kind), the value returned, whether the OCR
\* fallback was entered, and the pages rendered and OCR'd
Extracted(kind, text, pageCount, ocrRan, rendered, ocrd) ==
    [kind |-> kind, v |-> [text |-> text, pageCount |-> pageCount],
     ocrRan |-> ocrRan, rendered |-> rendered, ocrd |-> ocrd]

\* a mutant of ExtractCatch: the catch keeps the page count
ExtractCatchKeepsCount(pageCount, ocrRan, rendered, ocrd) ==
    Extracted("value", <<>>, pageCount, ocrRan, rendered, ocrd)

\* lines 93-96
ExtractCatch(pageCount, ocrRan, rendered, ocrd) ==
    Extracted("value", <<>>, 0, ocrRan, rendered, ocrd)

\* lines 14-97
extractTextFromPdfBlob(doc, fault) ==
    IF fault.at = "load" THEN ExtractCatch(0, FALSE, <<>>, <<>>)
    ELSE
    LET pageCount == doc.pageCount
        t == TextLoop(doc, 1, <<>>, fault)
        fullText == Join(t.textParts, <<NL, NL>>)
        pagesToOcr == PagesToOcr(pageCount)
        o == OcrLoop(doc, 1, pagesToOcr, <<>>, <<>>, <<>>, fault)
        ocrText == Join(o.ocrParts, <<NL, NL>>)
    IN  IF t.thrown THEN ExtractCatch(pageCount, FALSE, <<>>, <<>>)
        ELSE IF UseTextLayer(fullText)
             THEN Extracted("value", fullText, pageCount, FALSE, <<>>, <<>>)
        ELSE IF o.thrown THEN ExtractCatch(pageCount, TRUE, o.rendered, o.ocrd)
        ELSE IF pagesToOcr < pageCount
             THEN Extracted("value", ocrText \o OcrMarker(pagesToOcr, pageCount),
                            pageCount, TRUE, o.rendered, o.ocrd)
        ELSE Extracted("value", ocrText, pageCount, TRUE, o.rendered, o.ocrd)

CharCounts == {0} \cup ((OcrThreshold - 1)..(OcrThreshold + 1))

Docs == [pageCount : 0..MaxExtractPages, chars : CharCounts]

NoFault == [at |-> "none", page |-> 0]

ExtractFaults ==
    {NoFault, [at |-> "load", page |-> 0]}
        \cup [at : {"text", "render", "ocr"}, page : 1..MaxExtractPages]

\* the fault happens in this call: its await is reached
FaultReached(doc, fault) ==
    \/ fault.at = "load"
    \/ fault.at = "text" /\ fault.page <= doc.pageCount
    \/ /\ fault.at \in {"render", "ocr"}
       /\ ~UseTextLayer(Join(TextLoop(doc, 1, <<>>, NoFault).textParts, <<NL, NL>>))
       /\ fault.page <= PagesToOcr(doc.pageCount)

ExtractCall ==
    /\ ex.pc = "call"
    /\ ex' = [ex EXCEPT !.pc = "done", !.result = extractTextFromPdfBlob(ex.doc, ex.fault)]
    /\ UNCHANGED <<bgTask, notes, jobs, sp, dec, rec, svc>>

InitExtract ==
    /\ bgTask = NoTask
    /\ notes = <<>>
    /\ jobs = [j \in Jobs |-> IdleJob]
    /\ sp = [pc |-> "off", n |-> 0, k |-> 1, fault |-> 0, thrown |-> FALSE, result |-> <<>>]
    /\ dec = [pc |-> "off", payload |-> <<>>, fence |-> "none", text |-> <<>>,
              result |-> [kind |-> "none", v |-> <<>>]]
    /\ rec = IdleRec
    /\ svc = IdleSvc
    /\ \E doc \in Docs, fault \in ExtractFaults :
          ex = [pc |-> "call", doc |-> doc, fault |-> fault,
                result |-> Extracted("none", <<>>, 0, FALSE, <<>>, <<>>)]

NextExtract == ExtractCall

SpecExtract == InitExtract /\ [][NextExtract]_vars

\* ---- claims on extractTextFromPdfBlob

\* the text-layer text of a document and its non-white-space length
TextLayer(doc) == Join(TextLoop(doc, 1, <<>>, NoFault).textParts, <<NL, NL>>)
NonWsChars(doc) == IF doc.pageCount = 0 THEN 0 ELSE doc.chars

\* the text layer was read: no failure of the load or of the text loop
TextLayerRead == ex.fault.at \notin {"load", "text"} \/ ~FaultReached(ex.doc, ex.fault)

\* the call fails as a whole: a failure outside the per-page OCR call
TotalFailure == ex.fault.at \in {"load", "text", "render"} /\ FaultReached(ex.doc, ex.fault)

\* C11: once the text layer is read, the OCR fallback runs if and only if
\* the text-layer text without white space has at most 50 characters; with
\* more than 50 the text-layer text is returned as it is, with the page
\* count, and no page is rendered or OCR'd.
C11_OcrIffAtMost50 ==
    (ex.pc = "done" /\ TextLayerRead) =>
        /\ ex.result.ocrRan <=> (NonWsChars(ex.doc) <= 50)
        /\ Len(StripWs(TextLayer(ex.doc))) = NonWsChars(ex.doc)
        /\ NonWsChars(ex.doc) > 50 =>
              /\ ex.result.kind = "value"
              /\ ex.result.v = [text |-> TextLayer(ex.doc), pageCount |-> ex.doc.pageCount]
              /\ ex.result.rendered = <<>> /\ ex.result.ocrd = <<>>

\* exactly 50 characters on two pages: OCR runs, and pages are OCR'd
C11_Witness ==
    /\ ex.pc = "done" /\ ex.fault = NoFault
    /\ ex.doc.chars = 50 /\ ex.doc.pageCount = 2
    /\ Len(TextLayer(ex.doc)) > 50
    /\ ex.result.ocrRan /\ ex.result.ocrd = <<1, 2>>

MarkerHead == "--- OCR processed first "

HasMarker(text, processed, total) ==
    \E x \in 1..(Len(text) - 4) :
        SubSeq(text, x, x + 4) =
            <<MarkerHead, ToString(processed), " of ", ToString(total), " pages ---">>

\* C12: when the OCR fallback runs on P pages and no page fails outside the
\* OCR call, the pages OCR'd are 1, 2, .., min(P, 20) in this order, the
\* text has the marker naming min(P, 20) and P if and only if P > 20, and
\* the returned pageCount is P.
C12_OcrCap ==
    (ex.pc = "done" /\ ex.result.ocrRan /\ ~TotalFailure) =>
        LET P == ex.doc.pageCount
            m == IF P <= 20 THEN P ELSE 20
        IN  /\ ex.result.ocrd = [x \in 1..m |-> x]
            /\ ex.result.rendered = [x \in 1..m |-> x]
            /\ P > 20 => HasMarker(ex.result.v.text, m, P)
            /\ P <= 20 => \A x \in 1..Len(ex.result.v.text) : ex.result.v.text[x] # MarkerHead
            /\ ex.result.v.pageCount = P

\* 21 pages without text layer: 20 pages OCR'd, marker "20 of 21"
C12_Witness ==
    /\ ex.pc = "done" /\ ex.fault = NoFault /\ ex.doc.pageCount = 21
    /\ ex.result.ocrRan /\ Len(ex.result.ocrd) = 20
    /\ HasMarker(ex.result.v.text, 20, 21)

\* C20: the call never raises, and when it fails as a whole (the load, a
\* page read of the text loop, or a page read or render of the OCR loop
\* fails) it returns exactly {text: "", pageCount: 0}.
C20_TotalFailure ==
    ex.pc = "done" =>
        /\ ex.result.kind = "value"
        /\ TotalFailure => ex.result.v = [text |-> <<>>, pageCount |-> 0]

\* the render of page 3 fails after two pages were OCR'd
C20_Witness ==
    /\ ex.pc = "done" /\ ex.fault = [at |-> "render", page |-> 3]
    /\ ex.doc.pageCount >= 3 /\ ex.result.ocrd = <<1, 2>>
    /\ ex.result.v = [text |-> <<>>, pageCount |-> 0]

\* the text the OCR fallback returns when page skip gives no text: the
\* non-empty trimmed texts of the other pages up to the cap, in page order,
\* then the marker when the document has more than 20 pages
OcrTextWithout(doc, skip) ==
    LET m == IF doc.pageCount <= 20 THEN doc.pageCount ELSE 20
        texts == [x \in 1..m |-> IF x = skip THEN <<>> ELSE Trim(OcrResultText(doc, x))]
    IN  Join(SelectSeq(texts, LAMBDA t : t # <<>>), <<NL, NL>>)
            \o (IF doc.pageCount > 20 THEN OcrMarker(m, doc.pageCount) ELSE <<>>)

\* the failure of ex.fault happens on a page of the OCR fallback
FailsInFallback ==
    /\ NonWsChars(ex.doc) <= 50
    /\ ex.fault.page <= (IF ex.doc.pageCount <= 20 THEN ex.doc.pageCount ELSE 20)

\* the extraction went on after the failure on page ex.fault.page
PageSkipped ==
    /\ ex.result.kind = "value"
    /\ ex.result.v.pageCount = ex.doc.pageCount
    /\ ex.result.ocrd =
          [x \in 1..(IF ex.doc.pageCount <= 20 THEN ex.doc.pageCount ELSE 20) |-> x]
    /\ ex.result.v.text = OcrTextWithout(ex.doc, ex.fault.page)

\* C23 as claimed: in the OCR fallback any failure while one page is
\* processed (its read, its render or its OCR call) leaves the extraction
\* running: the page gives no text, the later pages up to the cap are
\* processed, and the result has the text of the other pages and the true
\* pageCount.
C23_Original ==
    (ex.pc = "done" /\ ex.fault.at \in {"render", "ocr"} /\ FailsInFallback) => PageSkipped

\* C23 as amended: the same for a failure of the OCR call of the page
\* (Tesseract.recognize).
C23_OcrPageSkipped ==
    (ex.pc = "done" /\ ex.fault.at = "ocr" /\ FailsInFallback) => PageSkipped

\* the OCR call fails on page 2 of 4: pages 1 to 4 are OCR'd, the text is
\* that of pages 1 and 4 (page 3 reads as white space)
C23_Witness ==
    /\ ex.pc = "done" /\ ex.fault = [at |-> "ocr", page |-> 2]
    /\ ex.doc = [pageCount |-> 4, chars |-> 0]
    /\ ex.result.ocrd = <<1, 2, 3, 4>>
    /\ ex.result.v = [text |-> <<"p", "1", NL, NL, "p", "4">>, pageCount |-> 4]

\* ======================================== the model-backed service calls
\* performSemanticSearch, organizeNote, processPdf and convertImageToNote of
\* src/services/geminiService.ts, and the Notes src/App.tsx builds from
\* what they return.  Values of the program are the tagged values JSONparse
\* yields, and <<"undefined", <<>>>>.

Undefined == <<"undefined", <<>>>>
EmptyArray == <<"arr", <<>>>>
Str(chars) == <<"str", chars>>

\* the property names read by the code
KNoteIds == <<"n", "o", "t", "e", "I", "d", "s">>
KTitle == <<"t", "i", "t", "l", "e">>
KSummary == <<"s", "u", "m", "m", "a", "r", "y">>
KSections == <<"s", "e", "c", "t", "i", "o", "n", "s">>
KTags == <<"t", "a", "g", "s">>
KContent == <<"c", "o", "n", "t", "e", "n", "t">>
KRawText == <<"r", "a", "w", "T", "e", "x", "t">>

IsNullish(v) == v = Undefined \/ v = <<"lit", "null">>

\* v.key for a value that is not null or undefined
Get(v, key) ==
    IF v[1] # "obj" THEN Undefined
    ELSE LET at == {m \in 1..Len(v[2]) : v[2][m][1] = key} IN
         IF at = {} THEN Undefined ELSE v[2][CHOOSE m \in at : TRUE][2]

\* ToBoolean
Truthy(v) ==
    /\ ~IsNullish(v)
    /\ v # <<"lit", "false">>
    /\ v # Str(<<>>)
    /\ ~(v[1] = "num" /\ v[2] \in {<<"0">>, <<"-", "0">>})

\* a || b
Or(a, b) == IF Truthy(a) THEN a ELSE b

IsArray(v) == v[1] = "arr"
IsString(v) == v[1] = "str"

\* what the model request does: it rejects, or resolves with a message
\* content (the empty content stands for a missing one as well)
Rejects == [kind |-> "throw", content |-> <<>>]
Content(chars) == [kind |-> "content", content |-> chars]

\* lines 57-69, after the request resolved: content || '{}'
chatJSON(resp) == IF resp.content = <<>> THEN <<"{", "}">> ELSE resp.content

\* the result of a call: how it ended, the value, the model requests issued
SvcResult(kind, v, requests) == [kind |-> kind, v |-> v, requests |-> requests]

\* a mutant of SearchShortCircuit: both must be empty
SearchShortCircuitBoth(query, notesMetadata) ==
    Trim(query) = <<>> /\ Len(notesMetadata) = 0

\* line 476: !query.trim() || notesMetadata.length === 0
SearchShortCircuit(query, notesMetadata) ==
    Trim(query) = <<>> \/ Len(notesMetadata) = 0

\* lines 487-493, from the settling of the request on
performSemanticSearchResumes(resp) ==
    IF resp.kind = "throw" THEN SvcResult("value", EmptyArray, 1)
    ELSE LET parsed == safeParseJSON(chatJSON(resp)).v IN
         IF IsNullish(parsed) THEN SvcResult("value", EmptyArray, 1)
         ELSE SvcResult("value", Or(Get(parsed, KNoteIds), Or(parsed, EmptyArray)), 1)

\* lines 310-311, from the settling of the request on
organizeNoteResumes(resp) ==
    IF resp.kind = "throw" THEN SvcResult("raised", Undefined, 1)
    ELSE SvcResult("value", safeParseJSON(chatJSON(resp)).v, 1)

\* lines 207-212, from the settling of the request on
convertImageToNoteResumes(resp) ==
    IF resp.kind = "throw" THEN SvcResult("raised", Undefined, 1)
    ELSE SvcResult("value", safeParseJSON(chatJSON(resp)).v, 1)

\* A source text (the text extractTextFromPdf returned for the chunk, or
\* the transcript) of len characters. The prefixes of one text are told
\* apart by their length, so a text is recorded by its length.
TextOf(len) == [len |-> len]

\* text.substring(0, end)
Substring0(text, end) == TextOf(Min(text.len, end))

\* geminiService.ts 262: rawText.substring(0, 8000)
PdfPayloadLimit == 8000

\* geminiService.ts 310: transcript.substring(0, 20000)
AudioPayloadLimit == 20000

\* the source text put into the user message of the model request
Payload(op, text) ==
    IF op = "processPdf" THEN Substring0(text, PdfPayloadLimit)
    ELSE IF op = "organizeNote" THEN Substring0(text, AudioPayloadLimit)
    ELSE TextOf(0)

\* a mutant of PdfRawText: the text sent to the model is returned
PdfRawTextSent(rawText) == Substring0(rawText, PdfPayloadLimit)

\* geminiService.ts 269: rawText: rawText
PdfRawText(rawText) == rawText

\* lines 261-273, from the settling of the request on
processPdfResumes(resp, rawText) ==
    IF resp.kind = "throw" THEN SvcResult("raised", Undefined, 1)
    ELSE LET parsed == safeParseJSON(chatJSON(resp)).v IN
         IF IsNullish(parsed) THEN SvcResult("raised", Undefined, 1)
         ELSE SvcResult("value",
                <<"obj",
                  << <<KTitle, Or(Get(parsed, KTitle),
                                  Str(<<"Untitled PDF">>))>>,
                     <<KSummary, Or(Get(parsed, KSummary), Str(<<>>))>>,
                     <<KSections, IF IsArray(Get(parsed, KSections))
                                  THEN Get(parsed, KSections) ELSE EmptyArray>>,
                     <<KTags, IF IsArray(Get(parsed, KTags))
                              THEN Get(parsed, KTags) ELSE EmptyArray>>,
                     <<KRawText, Str(PdfRawText(rawText))>> >> >>, 1)

\* lines 74-84, after the request resolved: content || ''
chatText(resp) == Str(resp.content)

\* lines 340-345, from the settling of the request on
getQuickAnswerResumes(resp) ==
    IF resp.kind = "throw" THEN SvcResult("raised", Undefined, 1)
    ELSE SvcResult("value", chatText(resp), 1)

\* lines 317-335: the request to deepseek-reasoner rejected, so the catch
\* calls chatText, which issues a second request
SolveFallsBack(requests, resp) == requests = 1 /\ resp.kind = "throw"

\* lines 317-335, from the settling of the last request on: of the first
\* (line 326) or of the one chatText issued in the catch (lines 330-333)
solveWithThinkingResumes(resp, requests) ==
    IF resp.kind = "throw" THEN SvcResult("raised", Undefined, requests)
    ELSE IF requests = 1
         THEN SvcResult("value", Or(Str(resp.content),
                                    Str(<<"Could not generate a solution.">>)), 1)
    ELSE SvcResult("value", chatText(resp), requests)

Resumes(op, resp, text) ==
    IF op = "performSemanticSearch" THEN performSemanticSearchResumes(resp)
    ELSE IF op = "getQuickAnswer" THEN getQuickAnswerResumes(resp)
    ELSE IF op = "organizeNote" THEN organizeNoteResumes(resp)
    ELSE IF op = "convertImageToNote" THEN convertImageToNoteResumes(resp)
    ELSE processPdfResumes(resp, text)

\* the source text kept in the Note: App.tsx 117 (originalTranscript:
\* transcript) and App.tsx 167 (rawContent: pdfData.rawText)
NoteSource(op, data, transcript) ==
    IF op = "organizeNote" THEN transcript ELSE Get(data, KRawText)[2]

\* the content fields of the Note App.tsx builds from the value a call
\* returned: App.tsx 110-121 (audio), 159-170 (pdf), 193-203 (image)
NoteFrom(op, data) ==
    [title |-> Get(data, KTitle),
     summary |-> Get(data, KSummary),
     sections |-> IF op = "convertImageToNote" THEN EmptyArray ELSE Get(data, KSections),
     tags |-> Get(data, KTags)]

Ops == {"performSemanticSearch", "organizeNote", "convertImageToNote", "processPdf",
        "getQuickAnswer", "solveWithThinking"}

\* the source texts handed to processPdf and organizeNote: empty, as long
\* as the payload limit, and one character longer
SourceTexts(op) ==
    IF op = "processPdf" THEN {TextOf(0), TextOf(PdfPayloadLimit), TextOf(PdfPayloadLimit + 1)}
    ELSE IF op = "organizeNote"
         THEN {TextOf(0), TextOf(AudioPayloadLimit), TextOf(AudioPayloadLimit + 1)}
    ELSE {TextOf(0)}

\* queries: "", " \t", "q", " q"
Queries == {<<>>, <<" ", TAB>>, <<"q">>, <<" ", "q">>}

\* notesMetadata, as the list of note ids
MetadataLists == {<<>>, <<"a">>, <<"a", "b">>}

\* a complete answer to organizeNote / processPdf
RespNote ==
    <<"{", Q, "t", "i", "t", "l", "e", Q, ":", Q, "T", Q, ",", Q, "s", "u",
      "m", "m", "a", "r", "y", Q, ":", Q, "S", Q, ",", Q, "s", "e", "c",
      "t", "i", "o", "n", "s", Q, ":", "[", "]", ",", Q, "t", "a", "g",
      "s", Q, ":", "[", Q, "g", Q, "]", "}">>

\* a complete answer to performSemanticSearch
RespSearch ==
    <<"{", Q, "n", "o", "t", "e", "I", "d", "s", Q, ":", "[", Q, "a", Q,
      "]", "}">>

\* responses of the model: the two answers and each truncation of them, no
\* content, and JSON that is not an object
Responses ==
    {Rejects}
        \cup {Content(t) : t \in Prefixes(RespNote) \cup Prefixes(RespSearch)}
        \cup {Content(<<"n", "u", "l", "l">>), Content(<<"[", Q, "a", Q, "]">>),
              Content(<<"]">>), Content(<<"{", NL, "}">>)}

\* a call runs up to the model request (or returns before it)
SvcInvoke ==
    /\ svc.pc = "call"
    /\ IF svc.op = "performSemanticSearch" /\ SearchShortCircuit(svc.query, svc.notesMetadata)
       THEN svc' = [svc EXCEPT !.pc = "done", !.result = SvcResult("value", EmptyArray, 0)]
       ELSE svc' = [svc EXCEPT !.pc = "awaiting", !.requests = 1,
                               !.sent = Payload(svc.op, svc.text)]
    /\ UNCHANGED <<bgTask, notes, jobs, sp, dec, rec, ex>>

\* the model request settles and the call runs to its end
SvcModelResponds(resp) ==
    /\ svc.pc = "awaiting"
    /\ IF svc.op # "solveWithThinking"
       THEN svc' = [svc EXCEPT !.pc = "done", !.resp = resp, !.result = Resumes(svc.op, resp, svc.text)]
       ELSE IF SolveFallsBack(svc.requests, resp)
       THEN svc' = [svc EXCEPT !.requests = 2, !.resp = resp]
       ELSE svc' = [svc EXCEPT !.pc = "done", !.resp = resp,
                               !.result = solveWithThinkingResumes(resp, svc.requests)]
    /\ UNCHANGED <<bgTask, notes, jobs, sp, dec, rec, ex>>

InitSvc ==
    /\ bgTask = NoTask
    /\ notes = <<>>
    /\ jobs = [j \in Jobs |-> IdleJob]
    /\ sp = [pc |-> "off", n |-> 0, k |-> 1, fault |-> 0, thrown |-> FALSE, result |-> <<>>]
    /\ dec = [pc |-> "off", payload |-> <<>>, fence |-> "none", text |-> <<>>,
              result |-> [kind |-> "none", v |-> <<>>]]
    /\ rec = IdleRec
    /\ ex = IdleEx
    /\ \E op \in Ops, query \in Queries, notesMetadata \in MetadataLists :
          /\ op # "performSemanticSearch" => query = <<>> /\ notesMetadata = <<>>
          /\ \E text \in SourceTexts(op) :
             svc = [pc |-> "call", op |-> op, query |-> query,
                    notesMetadata |-> notesMetadata, requests |-> 0,
                    text |-> text, sent |-> TextOf(0),
                    resp |-> Rejects, result |-> SvcResult("none", Undefined, 0)]

NextSvc ==
    \/ SvcInvoke
    \/ \E resp \in Responses : SvcModelResponds(resp)

SpecSvc == InitSvc /\ [][NextSvc]_vars

\* ---- claims on the service calls

\* C13: performSemanticSearch with a query that is empty or white space only,
\* or with an empty metadata list, returns the empty list and issues no
\* model request.
C13_SearchShortCircuit ==
    (svc.pc # "call" /\ svc.op = "performSemanticSearch"
        /\ ((\A x \in 1..Len(svc.query) : svc.query[x] \in {" ", TAB, NL, CR})
            \/ svc.notesMetadata = <<>>)) =>
        /\ svc.pc = "done"
        /\ svc.requests = 0
        /\ svc.result = SvcResult("value", EmptyArray, 0)

\* a white-space query against two notes
C13_Witness ==
    /\ svc.pc = "done" /\ svc.op = "performSemanticSearch"
    /\ svc.query = <<" ", TAB>> /\ svc.notesMetadata = <<"a", "b">>
    /\ svc.requests = 0 /\ svc.result.v = EmptyArray

\* neither the first parse nor the parse after the repair succeeds
DecodeFailed(text) ==
    LET cleaned == Cleaned(text) IN
    ~JSONparse(cleaned).ok /\ ~JSONparse(Repair(cleaned)).ok

\* C17 as claimed: when the response cannot be decoded, a call raises
\* nothing; performSemanticSearch returns the empty list, and the results of
\* organizeNote, processPdf and convertImageToNote have a string title, a
\* string summary and a list of tags (and of sections, where the Note takes
\* them from the result), so title, summary, sections and tags of the Note
\* built from them are defined.
C17_NeutralDefaults ==
    (svc.pc = "done" /\ svc.result.requests = 1 /\ svc.resp.kind = "content"
        /\ DecodeFailed(chatJSON(svc.resp))) =>
        /\ svc.result.kind = "value"
        /\ svc.op = "performSemanticSearch" => svc.result.v = EmptyArray
        /\ svc.op \in {"organizeNote", "processPdf", "convertImageToNote"} =>
              LET note == NoteFrom(svc.op, svc.result.v) IN
              /\ IsString(note.title) /\ IsString(note.summary)
              /\ IsArray(note.sections) /\ IsArray(note.tags)

\* C24 as claimed: no operation issues more than one model request in one
\* invocation, also when the request fails.
C24_NoRetry == svc.requests <= 1

\* C27: the source text kept in a PDF Note (rawContent) and in an audio Note
\* (originalTranscript) is the extracted text or the transcript, whole, also
\* when the payload sent to the model was cut at 8000 or 20000 characters.
C27_SourceVerbatim ==
    (svc.pc = "done" /\ svc.op \in {"processPdf", "organizeNote"}
        /\ svc.result.kind = "value") =>
        /\ NoteSource(svc.op, svc.result.v, svc.text) = svc.text
        /\ svc.sent.len <= svc.text.len

\* a processPdf call returned with a text one character longer than the
\* payload that was sent
C27_Witness ==
    /\ svc.pc = "done" /\ svc.op = "processPdf" /\ svc.result.kind = "value"
    /\ svc.text.len = PdfPayloadLimit + 1 /\ svc.sent.len = PdfPayloadLimit

\* an organizeNote call returned with a transcript longer than the payload
C27_WitnessAudio ==
    /\ svc.pc = "done" /\ svc.op = "organizeNote" /\ svc.result.kind = "value"
    /\ svc.text.len = AudioPayloadLimit + 1 /\ svc.sent.len = AudioPayloadLimit
====
